---- MODULE Spec2Model ----
(***************************************************************************)
(* OpenAddressingHashTable<K, V> of "05-Hash Tables.rs": a linear-probing  *)
(* hash table with tombstone deletion and doubling resize.                 *)
(*                                                                         *)
(* The table is a function over 0..len-1 (a Vec), a slot is a record with  *)
(* a tag, an Option is a sequence of length 0 (None) or 1 (Some(v)).       *)
(* DefaultHasher is opaque: the hash of each key is an arbitrary fixed     *)
(* word, chosen when the behaviour starts.                                 *)
(*                                                                         *)
(* new() is with_capacity(16); the model starts from with_capacity(n) for  *)
(* the small n of MaxRequested.  Calls that would grow the table beyond    *)
(* MaxCapacity are not taken.                                              *)
(*                                                                         *)
(* After it come, each with its own specification, the other data          *)
(* structures of the same file, SeparateChainingHashTable, CuckooHashTable *)
(* and LRUCache, and BlockingQueue and CircularQueue of "04-Queues.rs".    *)
(***************************************************************************)
EXTENDS Integers, Sequences, FiniteSets, TLC

\* ---- bounds of the model ------------------------------------------------
MaxKey == 3
MaxValue == 2
MaxRequested == 4
MaxCapacity == 4
UsizeBits == 4

\* ---- program constants --------------------------------------------------
\* load_factor_threshold: 0.7, written as the fraction 7 / 10
ThresholdNum == 7
ThresholdDen == 10

Keys == 1..MaxKey
Values == 1..MaxValue
\* usize arithmetic is modulo 2^UsizeBits (the wrapping, release-build reading
\* of hash + probe)
WordMod == 2 ^ UsizeBits
\* the hash words keys may have: the smallest word and the largest one, whose
\* probe sequence wraps around the word as well as around the table
HashValues == {0, WordMod - 1}

VARIABLES table, size, capacity, hash, ref, last, aborted, hist,
          pc, local,
          buckets,
          tables,
          map, order,
          queue, mutex, not_empty, not_full,
          buffer, head, tail

\* The fields of the other data structures of the repository.  size, capacity,
\* hash, ref, last, aborted and hist serve whichever data structure a
\* specification constructs; a specification leaves the fields of the data
\* structures it does not construct at <<>>.
chainingVars == <<buckets>>
cuckooVars == <<tables>>
lruVars == <<map, order>>
blockingVars == <<queue, mutex, not_empty, not_full>>
circularVars == <<buffer, head, tail>>

vars == <<table, size, capacity, hash, ref, last, aborted, hist, pc, local,
          chainingVars, cuckooVars, lruVars, blockingVars, circularVars>>

NoChaining == buckets = <<>>
NoCuckoo == tables = <<>>
NoLRU == map = <<>> /\ order = <<>>
NoBlocking == queue = <<>> /\ mutex = <<>> /\ not_empty = <<>> /\ not_full = <<>>
NoCircular == buffer = <<>> /\ head = <<>> /\ tail = <<>>

\* what the operations of OpenAddressingHashTable leave alone
notOpenAddressing ==
    <<chainingVars, cuckooVars, lruVars, blockingVars, circularVars>>

\* ---- Option<V> ----------------------------------------------------------
None == <<>>
Some(v) == <<v>>

\* ---- enum OpenAddressingEntry<K, V> --------------------------------------
Empty == [tag |-> "Empty"]
Deleted == [tag |-> "Deleted"]
Occupied(k, v) == [tag |-> "Occupied", key |-> k, value |-> v]

\* ---- integer helpers ----------------------------------------------------
RECURSIVE BitAnd(_, _)
BitAnd(a, b) ==
    IF a = 0 \/ b = 0 THEN 0
    ELSE (a % 2) * (b % 2) + 2 * BitAnd(a \div 2, b \div 2)

RECURSIVE Pow2AtLeast(_, _)
Pow2AtLeast(n, p) == IF p >= n THEN p ELSE Pow2AtLeast(n, 2 * p)

\* usize::next_power_of_two: the smallest power of two >= n (1 for n = 0)
next_power_of_two(n) == Pow2AtLeast(n, 1)

\* ---- the struct, as a value ---------------------------------------------
Self == [table |-> table, size |-> size, capacity |-> capacity]

VecLen(t) == Cardinality(DOMAIN t)

\* with_capacity without the rounding to a power of two (a faulty variant)
with_capacity_exact(requested) ==
    LET c == IF requested = 0 THEN 1 ELSE requested
    IN  [table |-> [i \in 0..(c - 1) |-> Empty], size |-> 0, capacity |-> c]

with_capacity(requested) ==
    LET c == next_power_of_two(requested)
    IN  [table |-> [i \in 0..(c - 1) |-> Empty], size |-> 0, capacity |-> c]

\* hash_key: (hash + probe) & (capacity - 1)
hash_key(cap, key, probe) == BitAnd((hash[key] + probe) % WordMod, cap - 1)

\* the ratio computed in usize, where size / capacity truncates (a faulty variant)
should_resize_int_div(self) ==
    (self.size \div self.capacity) * ThresholdDen > ThresholdNum

\* the ratio compared with 1.0, which it never exceeds (a faulty variant)
should_resize_over_full(self) ==
    self.size > self.capacity

\* load_factor() > load_factor_threshold. size / capacity is a dyadic rational
\* (capacity is a power of two), so the f64 comparison with 0.7 agrees with
\* the exact comparison of size * 10 with capacity * 7.
should_resize(self) ==
    self.size * ThresholdDen > self.capacity * ThresholdNum

\* ---- insert -------------------------------------------------------------
\* the Empty and Deleted arms of insert
insert_vacant(self, index, key, value) ==
    [self EXCEPT !.table[index] = Occupied(key, value), !.size = @ + 1]

\* the Occupied arm without the store of the new value (a faulty variant)
insert_existing_keep(self, index, value) == self

\* the Occupied arm of insert, on a matching key
insert_existing(self, index, value) ==
    [self EXCEPT !.table[index].value = value]

RECURSIVE insert_probe(_, _, _, _)
insert_probe(self, key, value, probe) ==
    IF probe >= self.capacity
    THEN [self |-> self, ret |-> None, panic |-> TRUE]
    ELSE LET index == hash_key(self.capacity, key, probe)
             entry == self.table[index]
         IN  CASE entry.tag = "Empty" ->
                    [self |-> insert_vacant(self, index, key, value),
                     ret |-> None, panic |-> FALSE]
               [] entry.tag = "Occupied" ->
                    IF entry.key = key
                    THEN [self |-> insert_existing(self, index, value),
                          ret |-> Some(entry.value), panic |-> FALSE]
                    ELSE insert_probe(self, key, value, probe + 1)
               [] entry.tag = "Deleted" ->
                    [self |-> insert_vacant(self, index, key, value),
                     ret |-> None, panic |-> FALSE]

RECURSIVE insert(_, _, _)
RECURSIVE resize_from(_, _, _)

\* the loop of resize: re-insert the Occupied entries of old, in index order
resize_from(old, new_table, i) ==
    IF i >= VecLen(old.table)
    THEN [self |-> new_table, panic |-> FALSE]
    ELSE IF old.table[i].tag = "Occupied"
         THEN LET r == insert(new_table, old.table[i].key, old.table[i].value)
              IN  IF r.panic
                  THEN [self |-> old, panic |-> TRUE]
                  ELSE resize_from(old, r.self, i + 1)
         ELSE resize_from(old, new_table, i + 1)

\* resize to capacity + 2 instead of capacity * 2 (a faulty variant)
resize_plus_two(self) ==
    LET new_capacity == self.capacity + 2
        new_table == [table |-> [i \in 0..(new_capacity - 1) |-> Empty],
                      size |-> 0,
                      capacity |-> new_capacity]
    IN  resize_from(self, new_table, 0)

resize(self) ==
    LET new_capacity == self.capacity * 2
        new_table == [table |-> [i \in 0..(new_capacity - 1) |-> Empty],
                      size |-> 0,
                      capacity |-> new_capacity]
    IN  resize_from(self, new_table, 0)

insert(self, key, value) ==
    LET r == IF should_resize(self)
             THEN resize(self)
             ELSE [self |-> self, panic |-> FALSE]
    IN  IF r.panic
        THEN [self |-> self, ret |-> None, panic |-> TRUE]
        ELSE insert_probe(r.self, key, value, 0)

\* ---- get / get_mut / contains_key ----------------------------------------
RECURSIVE get_probe(_, _, _)
get_probe(self, key, probe) ==
    IF probe >= self.capacity
    THEN None
    ELSE LET entry == self.table[hash_key(self.capacity, key, probe)]
         IN  CASE entry.tag = "Occupied" ->
                    IF entry.key = key
                    THEN Some(entry.value)
                    ELSE get_probe(self, key, probe + 1)
               [] entry.tag = "Empty" -> None
               [] entry.tag = "Deleted" -> get_probe(self, key, probe + 1)

get(self, key) == get_probe(self, key, 0)

get_mut(self, key) == get_probe(self, key, 0)

contains_key(self, key) == get(self, key) # None

len(self) == self.size

\* ---- remove -------------------------------------------------------------
\* remove leaving Empty instead of a tombstone (a faulty variant)
remove_found_empty(self, index) ==
    [self EXCEPT !.table[index] = Empty, !.size = @ - 1]

\* remove without the size decrement (a faulty variant)
remove_found_no_decrement(self, index) ==
    [self EXCEPT !.table[index] = Deleted]

\* remove without the replacement of the slot (a faulty variant)
remove_found_keep_slot(self, index) ==
    [self EXCEPT !.size = @ - 1]

\* mem::replace(&mut self.table[index], Deleted); self.size -= 1
remove_found(self, index) ==
    [self EXCEPT !.table[index] = Deleted, !.size = @ - 1]

RECURSIVE remove_probe(_, _, _)
remove_probe(self, key, probe) ==
    IF probe >= self.capacity
    THEN [self |-> self, ret |-> None]
    ELSE LET index == hash_key(self.capacity, key, probe)
             entry == self.table[index]
         IN  CASE entry.tag = "Occupied" ->
                    IF entry.key = key
                    THEN [self |-> remove_found(self, index),
                          ret |-> Some(entry.value)]
                    ELSE remove_probe(self, key, probe + 1)
               [] entry.tag = "Empty" -> [self |-> self, ret |-> None]
               [] entry.tag = "Deleted" -> remove_probe(self, key, probe + 1)

\* remove with the size decrement outside the match (a faulty variant)
remove_eager(self, key) ==
    LET r == remove_probe(self, key, 0)
    IN  [self |-> [r.self EXCEPT !.size = self.size - 1], ret |-> r.ret]

remove(self, key) == remove_probe(self, key, 0)

\* ---- the probe loop of get, get_mut and remove ----------------------------
\* the loop run for probe in 0..2 * capacity (a faulty variant)
RECURSIVE search_probes_twice(_, _, _)
search_probes_twice(self, key, probe) ==
    IF probe >= 2 * self.capacity
    THEN 0
    ELSE LET entry == self.table[hash_key(self.capacity, key, probe)]
         IN  CASE entry.tag = "Occupied" ->
                    IF entry.key = key
                    THEN 1
                    ELSE 1 + search_probes_twice(self, key, probe + 1)
               [] entry.tag = "Empty" -> 1
               [] entry.tag = "Deleted" ->
                    1 + search_probes_twice(self, key, probe + 1)

\* the number of slots the loop `for probe in 0..self.capacity` looks at
\* before it returns or runs out, from offset probe on
RECURSIVE search_probes(_, _, _)
search_probes(self, key, probe) ==
    IF probe >= self.capacity
    THEN 0
    ELSE LET entry == self.table[hash_key(self.capacity, key, probe)]
         IN  CASE entry.tag = "Occupied" ->
                    IF entry.key = key
                    THEN 1
                    ELSE 1 + search_probes(self, key, probe + 1)
               [] entry.tag = "Empty" -> 1
               [] entry.tag = "Deleted" ->
                    1 + search_probes(self, key, probe + 1)

\* ---- the state machine --------------------------------------------------
\* ref is the reference map (what a HashMap given the same calls holds);
\* last records the call that produced the current state; hist holds the
\* calls before it, in the specifications that follow one fixed scenario
\* (Spec, which takes any call in any order, leaves it empty).
Call(op, key, value, ret, refret, before, resized, requested) ==
    [op |-> op, key |-> key, value |-> value, ret |-> ret, refret |-> refret,
     before |-> before, resized |-> resized, requested |-> requested]

\* Keys are used through == and through their hash only, so the hash words
\* are taken in key order without loss of generality.
HashFunctions ==
    {h \in [Keys -> HashValues] : \A a, b \in Keys : a < b => h[a] <= h[b]}

Init ==
    \E requested \in 0..MaxRequested :
        LET t == with_capacity(requested)
        IN  /\ table = t.table
            /\ size = t.size
            /\ capacity = t.capacity
            /\ hash \in HashFunctions
            /\ ref = [k \in Keys |-> None]
            /\ last = Call("with_capacity", 0, 0, None, None, t, FALSE, requested)
            /\ aborted = FALSE
            /\ hist = <<>>
            /\ pc = "idle"
            /\ local = <<>>
            /\ NoChaining /\ NoCuckoo /\ NoLRU /\ NoBlocking /\ NoCircular

\* a call of insert that leaves the capacity within limit
InsertCall(key, value, limit) ==
    /\ ~aborted
    /\ \E r \in {insert(Self, key, value)} :
           /\ r.self.capacity <= limit
           /\ IF r.panic
              THEN /\ aborted' = TRUE
                   /\ UNCHANGED <<table, size, capacity, ref, last>>
              ELSE /\ table' = r.self.table
                   /\ size' = r.self.size
                   /\ capacity' = r.self.capacity
                   /\ ref' = [ref EXCEPT ![key] = Some(value)]
                   /\ last' = Call("insert", key, value, r.ret, ref[key], Self,
                                   should_resize(Self), 0)
                   /\ UNCHANGED aborted
    /\ UNCHANGED <<hash, pc, local, notOpenAddressing>>

RemoveCall(key) ==
    /\ ~aborted
    /\ \E r \in {remove(Self, key)} :
           /\ table' = r.self.table
           /\ size' = r.self.size
           /\ capacity' = r.self.capacity
           /\ last' = Call("remove", key, 0, r.ret, ref[key], Self, FALSE, 0)
    /\ ref' = [ref EXCEPT ![key] = None]
    /\ UNCHANGED <<hash, aborted, pc, local, notOpenAddressing>>

Insert(key, value) == InsertCall(key, value, MaxCapacity) /\ UNCHANGED hist

Remove(key) == RemoveCall(key) /\ UNCHANGED hist

Get(key) ==
    /\ ~aborted
    /\ last' = Call("get", key, 0, get(Self, key), ref[key], Self, FALSE, 0)
    /\ UNCHANGED <<table, size, capacity, hash, ref, aborted, hist>>
    /\ UNCHANGED <<pc, local, notOpenAddressing>>

Next ==
    \/ \E key \in Keys, value \in Values : Insert(key, value)
    \/ \E key \in Keys : Remove(key)
    \/ \E key \in Keys : Get(key)

Spec == Init /\ [][Next]_vars

\* ---- scenario: insert(k1, v1); remove(k1); insert(k2, v2) ----------------
\* on a table fresh from with_capacity, for k1 # k2 with the same initial
\* probe index
TombstoneInsertFirst(key, value) ==
    /\ Len(hist) = 0
    /\ last.op = "with_capacity"
    /\ InsertCall(key, value, MaxCapacity)
    /\ hist' = Append(hist, last)

TombstoneRemove ==
    /\ Len(hist) = 1
    /\ last.op = "insert"
    /\ RemoveCall(last.key)
    /\ hist' = Append(hist, last)

TombstoneInsertSecond(key, value) ==
    /\ Len(hist) = 2
    /\ last.op = "remove"
    /\ key # last.key
    /\ hash_key(capacity, key, 0) = hash_key(capacity, last.key, 0)
    /\ InsertCall(key, value, MaxCapacity)
    /\ hist' = Append(hist, last)

NextTombstone ==
    \/ \E key \in Keys, value \in Values : TombstoneInsertFirst(key, value)
    \/ TombstoneRemove
    \/ \E key \in Keys, value \in Values : TombstoneInsertSecond(key, value)

SpecTombstone == Init /\ [][NextTombstone]_vars

\* ---- scenario: seven distinct keys into with_capacity(8) -----------------
\* The keys are named 1..7 in the order of their insertion; each has any of
\* the hash words and is given any value.
ExampleKeys == 1..7

ExampleInserted == Cardinality({k \in ExampleKeys : ref[k] # None})

InitExample ==
    LET t == with_capacity(8)
    IN  /\ table = t.table
        /\ size = t.size
        /\ capacity = t.capacity
        /\ hash \in [ExampleKeys -> HashValues]
        /\ ref = [k \in ExampleKeys |-> None]
        /\ last = Call("with_capacity", 0, 0, None, None, t, FALSE, 8)
        /\ aborted = FALSE
        /\ hist = <<>>
        /\ pc = "idle"
        /\ local = <<>>
        /\ NoChaining /\ NoCuckoo /\ NoLRU /\ NoBlocking /\ NoCircular

ExampleInsert(value) ==
    /\ ExampleInserted < 7
    /\ InsertCall(ExampleInserted + 1, value, 16)
    /\ UNCHANGED hist

NextExample == \E value \in Values : ExampleInsert(value)

SpecExample == InitExample /\ [][NextExample]_vars

\* ---- resize, one re-insertion at a time ----------------------------------
\* pc is "resize" while insert is inside resize and "probe" between the
\* return of resize and the probe loop of insert; local holds the arguments of
\* the insert, the state at its entry, new_table and the position of the loop
\* over self.table.
\* one turn of the loop that moves the entry out of self.table (a faulty variant)
resize_step_take(self, new_table, i) ==
    IF self.table[i].tag = "Occupied"
    THEN LET r == insert(new_table, self.table[i].key, self.table[i].value)
         IN  [self |-> [self EXCEPT !.table[i] = Empty],
              new_table |-> r.self, panic |-> r.panic]
    ELSE [self |-> self, new_table |-> new_table, panic |-> FALSE]

\* one turn of `for entry in &self.table`: an Occupied entry is cloned into
\* new_table
resize_step(self, new_table, i) ==
    IF self.table[i].tag = "Occupied"
    THEN LET r == insert(new_table, self.table[i].key, self.table[i].value)
         IN  [self |-> self, new_table |-> r.self, panic |-> r.panic]
    ELSE [self |-> self, new_table |-> new_table, panic |-> FALSE]

InsertNoResize(key, value) ==
    /\ pc = "idle"
    /\ ~should_resize(Self)
    /\ InsertCall(key, value, MaxCapacity)
    /\ UNCHANGED hist

ResizeBegin(key, value) ==
    /\ pc = "idle"
    /\ ~aborted
    /\ should_resize(Self)
    /\ capacity * 2 <= MaxCapacity
    /\ pc' = "resize"
    /\ local' = [key |-> key, value |-> value, before |-> Self,
                 new_table |-> [table |-> [i \in 0..(capacity * 2 - 1) |-> Empty],
                                size |-> 0,
                                capacity |-> capacity * 2],
                 i |-> 0]
    /\ UNCHANGED <<table, size, capacity, hash, ref, last, aborted, hist,
                   notOpenAddressing>>

ResizeLoop ==
    /\ pc = "resize"
    /\ local.i < VecLen(table)
    /\ \E r \in {resize_step(Self, local.new_table, local.i)} :
           /\ table' = r.self.table
           /\ size' = r.self.size
           /\ capacity' = r.self.capacity
           /\ IF r.panic
              THEN /\ aborted' = TRUE
                   /\ pc' = "idle"
                   /\ local' = <<>>
              ELSE /\ local' = [local EXCEPT !.new_table = r.new_table,
                                             !.i = @ + 1]
                   /\ UNCHANGED <<aborted, pc>>
    /\ UNCHANGED <<hash, ref, last, hist, notOpenAddressing>>

\* *self = new_table
ResizeSwap ==
    /\ pc = "resize"
    /\ local.i >= VecLen(table)
    /\ table' = local.new_table.table
    /\ size' = local.new_table.size
    /\ capacity' = local.new_table.capacity
    /\ pc' = "probe"
    /\ UNCHANGED <<hash, ref, last, aborted, hist, local, notOpenAddressing>>

\* the probe loop of the insert that resized
ResizeProbe ==
    /\ pc = "probe"
    /\ \E r \in {insert_probe(Self, local.key, local.value, 0)} :
           IF r.panic
           THEN /\ aborted' = TRUE
                /\ UNCHANGED <<table, size, capacity, ref, last>>
           ELSE /\ table' = r.self.table
                /\ size' = r.self.size
                /\ capacity' = r.self.capacity
                /\ ref' = [ref EXCEPT ![local.key] = Some(local.value)]
                /\ last' = Call("insert", local.key, local.value, r.ret,
                                ref[local.key], local.before, TRUE, 0)
                /\ UNCHANGED aborted
    /\ pc' = "idle"
    /\ local' = <<>>
    /\ UNCHANGED <<hash, hist, notOpenAddressing>>

RemoveIdle(key) ==
    /\ pc = "idle"
    /\ Remove(key)

NextResize ==
    \/ \E key \in Keys, value \in Values : InsertNoResize(key, value)
    \/ \E key \in Keys, value \in Values : ResizeBegin(key, value)
    \/ ResizeLoop
    \/ ResizeSwap
    \/ ResizeProbe
    \/ \E key \in Keys : RemoveIdle(key)

SpecResize == Init /\ [][NextResize]_vars

\* ---- SeparateChainingHashTable<K, V> --------------------------------------
\* buckets is a Vec of chains; a chain (Option<Box<HashNode>> with its next
\* links) is the sequence of its nodes, None being the empty sequence.
\* load_factor_threshold: 0.75, written as the fraction 3 / 4
ChainingThresholdNum == 3
ChainingThresholdDen == 4

HashNode(k, v) == [key |-> k, value |-> v]

ChainingSelf == [buckets |-> buckets, size |-> size, capacity |-> capacity]

\* buckets has capacity.next_power_of_two() chains, the capacity field keeps
\* the number asked for
chaining_with_capacity(requested) ==
    [buckets |-> [i \in 0..(next_power_of_two(requested) - 1) |-> <<>>],
     size |-> 0,
     capacity |-> requested]

\* hash & (buckets.len() - 1)
chaining_hash_key(self, key) == BitAnd(hash[key], VecLen(self.buckets) - 1)

\* size / buckets.len() > 0.75; the quotient is a dyadic rational and 0.75 is
\* exact in f64
chaining_should_resize(self) ==
    self.size * ChainingThresholdDen > VecLen(self.buckets) * ChainingThresholdNum

\* the position of the first node of chain with the key, 0 if there is none
ChainPosition(chain, key) ==
    IF \E p \in 1..Len(chain) : chain[p].key = key
    THEN CHOOSE p \in 1..Len(chain) :
             /\ chain[p].key = key
             /\ \A q \in 1..(p - 1) : chain[q].key # key
    ELSE 0

\* insert after the resize test: update the node with the key, or add a new
\* node at the end of the chain
chaining_insert_bucket(self, key, value) ==
    LET index == chaining_hash_key(self, key)
        chain == self.buckets[index]
        p == ChainPosition(chain, key)
    IN  IF p # 0
        THEN [self |-> [self EXCEPT !.buckets[index][p].value = value],
              ret |-> Some(chain[p].value)]
        ELSE [self |-> [self EXCEPT !.buckets[index] =
                                        Append(chain, HashNode(key, value)),
                                    !.size = @ + 1],
              ret |-> None]

\* the nodes of buckets i, i + 1, ... in the order resize visits them
RECURSIVE ChainNodes(_, _)
ChainNodes(b, i) ==
    IF i >= VecLen(b) THEN <<>> ELSE b[i] \o ChainNodes(b, i + 1)

RECURSIVE chaining_insert(_, _, _)
RECURSIVE chaining_resize_from(_, _)

chaining_resize_from(new_table, nodes) ==
    IF nodes = <<>>
    THEN new_table
    ELSE chaining_resize_from(
             chaining_insert(new_table, Head(nodes).key, Head(nodes).value).self,
             Tail(nodes))

chaining_resize(self) ==
    LET new_capacity == VecLen(self.buckets) * 2
        new_table == [buckets |-> [i \in 0..(new_capacity - 1) |-> <<>>],
                      size |-> 0,
                      capacity |-> new_capacity]
    IN  chaining_resize_from(new_table, ChainNodes(self.buckets, 0))

chaining_insert(self, key, value) ==
    chaining_insert_bucket(
        IF chaining_should_resize(self) THEN chaining_resize(self) ELSE self,
        key, value)

chaining_get(self, key) ==
    LET chain == self.buckets[chaining_hash_key(self, key)]
        p == ChainPosition(chain, key)
    IN  IF p # 0 THEN Some(chain[p].value) ELSE None

chaining_len(self) == self.size

\* remove takes the chain out of its bucket (bucket.take(), line 132) and
\* puts it back on the one path that ends at line 151, where the key was not
\* found; the two paths that find the key return before that, with the
\* bucket left None.
chaining_remove(self, key) ==
    LET index == chaining_hash_key(self, key)
        chain == self.buckets[index]
        p == ChainPosition(chain, key)
    IN  IF chain = <<>>
        THEN [self |-> self, ret |-> None]
        ELSE IF p = 1
        THEN [self |-> [self EXCEPT !.buckets[index] = <<>>, !.size = @ - 1],
              ret |-> Some(chain[1].value)]
        ELSE IF p # 0
        THEN [self |-> [self EXCEPT !.buckets[index] = <<>>, !.size = @ - 1],
              ret |-> Some(chain[p].value)]
        ELSE [self |-> self, ret |-> None]

InitChaining ==
    \E requested \in 0..MaxRequested :
        LET t == chaining_with_capacity(requested)
        IN  /\ buckets = t.buckets
            /\ size = t.size
            /\ capacity = t.capacity
            /\ hash \in HashFunctions
            /\ ref = [k \in Keys |-> None]
            /\ last = Call("with_capacity", 0, 0, None, None, t, FALSE, requested)
            /\ aborted = FALSE
            /\ hist = <<>>
            /\ pc = "idle"
            /\ local = <<>>
            /\ table = <<>>
            /\ NoCuckoo /\ NoLRU /\ NoBlocking /\ NoCircular

\* what the operations of SeparateChainingHashTable leave alone
notChaining ==
    <<table, hash, aborted, hist, pc, local,
      cuckooVars, lruVars, blockingVars, circularVars>>

ChainingInsert(key, value) ==
    /\ \E r \in {chaining_insert(ChainingSelf, key, value)} :
           /\ VecLen(r.self.buckets) <= MaxCapacity
           /\ buckets' = r.self.buckets
           /\ size' = r.self.size
           /\ capacity' = r.self.capacity
           /\ last' = Call("insert", key, value, r.ret, ref[key], ChainingSelf,
                           chaining_should_resize(ChainingSelf), 0)
    /\ ref' = [ref EXCEPT ![key] = Some(value)]
    /\ UNCHANGED notChaining

ChainingRemove(key) ==
    /\ \E r \in {chaining_remove(ChainingSelf, key)} :
           /\ buckets' = r.self.buckets
           /\ size' = r.self.size
           /\ capacity' = r.self.capacity
           /\ last' = Call("remove", key, 0, r.ret, ref[key], ChainingSelf,
                           FALSE, 0)
    /\ ref' = [ref EXCEPT ![key] = None]
    /\ UNCHANGED notChaining

NextChaining ==
    \/ \E key \in Keys, value \in Values : ChainingInsert(key, value)
    \/ \E key \in Keys : ChainingRemove(key)

SpecChaining == InitChaining /\ [][NextChaining]_vars

\* ---- CuckooHashTable<K, V> ------------------------------------------------
\* tables[t][i] is an Option<(K, V)>: None, or Some(<<key, value>>).
\* bounds of the model: the largest capacity given to new, the largest value
\* of either half of a hash word, the largest size an insert starts from
MaxCuckooCapacity == 2
MaxHashPart == 1
MaxCuckooSize == 4

\* the second hash function shifts the hash word right by 16
CuckooShift == 16
\* for _ in 0..1000
CuckooRounds == 1000

\* the hash words keys may have: a low part read by the first hash function
\* and a part from bit 16 on read by the second
CuckooHashValues ==
    {lo + (2 ^ CuckooShift) * hi : lo \in 0..MaxHashPart, hi \in 0..MaxHashPart}

\* keys are used through == and their hash only: hash words in key order
CuckooHashFunctions ==
    {h \in [Keys -> CuckooHashValues] : \A a, b \in Keys : a < b => h[a] <= h[b]}

CuckooSelf == [tables |-> tables, size |-> size, capacity |-> capacity]

Ok == <<"Ok">>
Err(k, v) == <<"Err", k, v>>

cuckoo_new(cap) ==
    [tables |-> [t \in 0..1 |-> [i \in 0..(cap - 1) |-> None]],
     size |-> 0,
     capacity |-> cap]

\* hash_functions[t], built by new with its capacity argument
hash_functions(t, cap, key) ==
    IF t = 0
    THEN hash[key] % cap
    ELSE (hash[key] \div (2 ^ CuckooShift)) % cap

\* the loop of insert from round on. An entry found in the way is taken out
\* of its slot and swapped with (current_key, current_value): the loop goes on
\* with the old entry, and `evicted`, which now holds the new entry, goes out
\* of scope at the end of the iteration; the slot is left None.
RECURSIVE cuckoo_insert_loop(_, _, _, _, _)
cuckoo_insert_loop(self, current_key, current_value, table_index, round) ==
    IF round >= CuckooRounds
    THEN [self |-> self, ret |-> Err(current_key, current_value)]
    ELSE LET index == hash_functions(table_index, self.capacity, current_key)
                          % self.capacity
             slot == self.tables[table_index][index]
         IN  IF slot # None /\ slot[1][1] = current_key
             THEN [self |-> [self EXCEPT !.tables[table_index][index] =
                                             Some(<<current_key, current_value>>)],
                   ret |-> Ok]
             ELSE IF slot = None
             THEN [self |-> [self EXCEPT !.tables[table_index][index] =
                                             Some(<<current_key, current_value>>),
                                         !.size = @ + 1],
                   ret |-> Ok]
             ELSE cuckoo_insert_loop(
                      [self EXCEPT !.tables[table_index][index] = None],
                      slot[1][1], slot[1][2], 1 - table_index, round + 1)

cuckoo_insert(self, key, value) == cuckoo_insert_loop(self, key, value, 0, 0)

\* does tables[t] hold the key at the index of hash_functions[t]
CuckooHolds(self, t, key) ==
    LET slot == self.tables[t][hash_functions(t, self.capacity, key) % self.capacity]
    IN  slot # None /\ slot[1][1] = key

cuckoo_get(self, key) ==
    LET i0 == hash_functions(0, self.capacity, key) % self.capacity
        i1 == hash_functions(1, self.capacity, key) % self.capacity
    IN  IF CuckooHolds(self, 0, key) THEN Some(self.tables[0][i0][1][2])
        ELSE IF CuckooHolds(self, 1, key) THEN Some(self.tables[1][i1][1][2])
        ELSE None

cuckoo_remove(self, key) ==
    LET i0 == hash_functions(0, self.capacity, key) % self.capacity
        i1 == hash_functions(1, self.capacity, key) % self.capacity
    IN  IF CuckooHolds(self, 0, key)
        THEN [self |-> [self EXCEPT !.tables[0][i0] = None, !.size = @ - 1],
              ret |-> Some(self.tables[0][i0][1][2])]
        ELSE IF CuckooHolds(self, 1, key)
        THEN [self |-> [self EXCEPT !.tables[1][i1] = None, !.size = @ - 1],
              ret |-> Some(self.tables[1][i1][1][2])]
        ELSE [self |-> self, ret |-> None]

cuckoo_len(self) == self.size

InitCuckoo ==
    \E cap \in 1..MaxCuckooCapacity :
        LET t == cuckoo_new(cap)
        IN  /\ tables = t.tables
            /\ size = t.size
            /\ capacity = t.capacity
            /\ hash \in CuckooHashFunctions
            /\ ref = [k \in Keys |-> None]
            /\ last = Call("new", 0, 0, None, None, t, FALSE, cap)
            /\ aborted = FALSE
            /\ hist = <<>>
            /\ pc = "idle"
            /\ local = <<>>
            /\ table = <<>>
            /\ NoChaining /\ NoLRU /\ NoBlocking /\ NoCircular

\* what the operations of CuckooHashTable leave alone
notCuckoo ==
    <<table, capacity, hash, aborted, hist, pc, local,
      chainingVars, lruVars, blockingVars, circularVars>>

CuckooInsert(key, value) ==
    /\ size < MaxCuckooSize
    /\ \E r \in {cuckoo_insert(CuckooSelf, key, value)} :
           /\ tables' = r.self.tables
           /\ size' = r.self.size
           /\ last' = Call("insert", key, value, r.ret, ref[key], CuckooSelf,
                           FALSE, 0)
           /\ ref' = IF r.ret = Ok
                     THEN [ref EXCEPT ![key] = Some(value)]
                     ELSE ref
    /\ UNCHANGED notCuckoo

CuckooRemove(key) ==
    /\ \E r \in {cuckoo_remove(CuckooSelf, key)} :
           /\ tables' = r.self.tables
           /\ size' = r.self.size
           /\ last' = Call("remove", key, 0, r.ret, ref[key], CuckooSelf,
                           FALSE, 0)
    /\ ref' = [ref EXCEPT ![key] = None]
    /\ UNCHANGED notCuckoo

NextCuckoo ==
    \/ \E key \in Keys, value \in Values : CuckooInsert(key, value)
    \/ \E key \in Keys : CuckooRemove(key)

SpecCuckoo == InitCuckoo /\ [][NextCuckoo]_vars

\* ---- LRUCache<K, V> -------------------------------------------------------
\* map is the HashMap, a function from every key to None (not in the map) or
\* Some(value); the copy of order kept beside each value is never read and
\* is left out. order is the LinkedList, front first.
\* bounds of the model: the largest capacity given to new, and the longest
\* order list a call starts from
MaxLRUCapacity == 2
MaxOrder == 4

LRUSelf == [capacity |-> capacity, map |-> map, order |-> order]

lru_new(cap) ==
    [capacity |-> cap, map |-> [k \in Keys |-> None], order |-> <<>>]

\* map.len()
MapLen(m) == Cardinality({k \in Keys : m[k] # None})

\* get: a present key is pushed to the back of order; its earlier
\* occurrences stay where they are
lru_get(self, key) ==
    IF self.map[key] # None
    THEN [self |-> [self EXCEPT !.order = Append(@, key)], ret |-> self.map[key]]
    ELSE [self |-> self, ret |-> None]

\* the if of put: with the map full and the key new, the front of order is
\* popped and removed from the map (a no-op when it is not in the map)
lru_evict(self, key) ==
    IF MapLen(self.map) >= self.capacity /\ self.map[key] = None
    THEN IF self.order # <<>>
         THEN [self EXCEPT !.map[Head(self.order)] = None,
                           !.order = Tail(@)]
         ELSE self
    ELSE self

lru_put(self, key, value) ==
    LET s == lru_evict(self, key)
    IN  [s EXCEPT !.order = Append(@, key), !.map[key] = Some(value)]

\* the sequence sq without the occurrences of x
RECURSIVE Without(_, _)
Without(sq, x) ==
    IF sq = <<>> THEN <<>>
    ELSE IF Head(sq) = x THEN Without(Tail(sq), x)
    ELSE <<Head(sq)>> \o Without(Tail(sq), x)

\* the elements of sq whose key is in map m, in the order of sq
RECURSIVE InMap(_, _)
InMap(sq, m) ==
    IF sq = <<>> THEN <<>>
    ELSE IF m[Head(sq)] # None THEN <<Head(sq)>> \o InMap(Tail(sq), m)
    ELSE InMap(Tail(sq), m)

\* ref is the record of use: the keys of the map, each once, the one whose
\* latest put or successful get is oldest first
Used(recency, key, m) == InMap(Append(Without(recency, key), key), m)

InitLRU ==
    \E cap \in 1..MaxLRUCapacity :
        LET c == lru_new(cap)
        IN  /\ capacity = c.capacity
            /\ map = c.map
            /\ order = c.order
            /\ ref = <<>>
            /\ last = Call("new", 0, 0, None, <<>>, c, FALSE, cap)
            /\ aborted = FALSE
            /\ hist = <<>>
            /\ pc = "idle"
            /\ local = <<>>
            /\ table = <<>>
            /\ size = <<>>
            /\ hash = <<>>
            /\ NoChaining /\ NoCuckoo /\ NoBlocking /\ NoCircular

\* what the operations of LRUCache leave alone
notLRU ==
    <<table, size, capacity, hash, aborted, hist, pc, local,
      chainingVars, cuckooVars, blockingVars, circularVars>>

LRUGet(key) ==
    /\ Len(order) < MaxOrder
    /\ \E r \in {lru_get(LRUSelf, key)} :
           /\ map' = r.self.map
           /\ order' = r.self.order
           /\ last' = Call("get", key, 0, r.ret, ref, LRUSelf, FALSE, 0)
           /\ ref' = IF r.ret # None THEN Used(ref, key, map) ELSE ref
    /\ UNCHANGED notLRU

LRUPut(key, value) ==
    /\ Len(order) < MaxOrder
    /\ \E s \in {lru_put(LRUSelf, key, value)} :
           /\ map' = s.map
           /\ order' = s.order
           /\ last' = Call("put", key, value, None, ref, LRUSelf, FALSE, 0)
           /\ ref' = Used(ref, key, s.map)
    /\ UNCHANGED notLRU

NextLRU ==
    \/ \E key \in Keys : LRUGet(key)
    \/ \E key \in Keys, value \in Values : LRUPut(key, value)

SpecLRU == InitLRU /\ [][NextLRU]_vars

\* ---- BlockingQueue<T> of "04-Queues.rs" -----------------------------------
\* demonstrate_blocking_queue: a producer thread puts 1..=8, a consumer
\* thread takes 8 times, on a queue made by with_capacity(5).
DemoCapacity == 5
DemoItems == 8

\* mutex is "free" or the thread that holds the MutexGuard; not_empty and
\* not_full are the sets of threads blocked in wait on each Condvar; pc is the
\* position of each thread; local holds the producer's loop variable i, the
\* items the consumer has received, and the parity of the number of turns
\* the while let loop of put has made.
Threads == {"producer", "consumer"}

\* Condvar::notify_one: wakes one of the waiting threads, if there is any
NotifyOne(waiters) ==
    IF waiters = {} THEN {{}} ELSE {waiters \ {t} : t \in waiters}

InitBlocking ==
    /\ capacity \in {None} \cup {Some(c) : c \in 0..DemoCapacity}
    /\ queue = <<>>
    /\ mutex = "free"
    /\ not_empty = {}
    /\ not_full = {}
    /\ pc = [t \in Threads |-> IF t = "producer" THEN "put_lock" ELSE "take_lock"]
    /\ local = [i |-> 1, received |-> <<>>, turns |-> 0]
    /\ table = <<>>
    /\ size = <<>>
    /\ hash = <<>>
    /\ ref = <<>>
    /\ last = <<>>
    /\ aborted = FALSE
    /\ hist = <<>>
    /\ NoChaining /\ NoCuckoo /\ NoLRU /\ NoCircular

\* what the threads of demonstrate_blocking_queue leave alone
notBlocking ==
    <<table, size, capacity, hash, ref, last, aborted, hist,
      chainingVars, cuckooVars, lruVars, circularVars>>

\* put: let mut queue = self.queue.lock().unwrap()
PutLock ==
    /\ pc["producer"] = "put_lock"
    /\ mutex = "free"
    /\ mutex' = "producer"
    /\ pc' = [pc EXCEPT !["producer"] = "put_while"]
    /\ UNCHANGED <<queue, not_empty, not_full, local, notBlocking>>

\* put: `while let Some(cap) = self.capacity` does not match: the loop ends
PutLoopExit ==
    /\ pc["producer"] = "put_while"
    /\ capacity = None
    /\ pc' = [pc EXCEPT !["producer"] = "put_push"]
    /\ UNCHANGED <<queue, mutex, not_empty, not_full, local, notBlocking>>

\* put: the pattern matches and queue.len() >= cap: not_full.wait(queue)
\* gives up the mutex and blocks
PutWait ==
    /\ pc["producer"] = "put_while"
    /\ capacity # None
    /\ Len(queue) >= capacity[1]
    /\ mutex' = "free"
    /\ not_full' = not_full \cup {"producer"}
    /\ pc' = [pc EXCEPT !["producer"] = "put_wait"]
    /\ UNCHANGED <<queue, not_empty, local, notBlocking>>

\* put: the pattern matches and queue.len() < cap: the body does nothing
\* and the loop, which has no break, makes its next turn
PutLoopAgain ==
    /\ pc["producer"] = "put_while"
    /\ capacity # None
    /\ Len(queue) < capacity[1]
    /\ local' = [local EXCEPT !.turns = 1 - @]
    /\ UNCHANGED <<queue, mutex, not_empty, not_full, pc, notBlocking>>

\* not_full.wait returns: the producer has been notified (it is no longer
\* among the waiting threads) or wakes up spuriously, as Condvar::wait may
PutWakeUp ==
    /\ pc["producer"] = "put_wait"
    /\ not_full' = not_full \ {"producer"}
    /\ pc' = [pc EXCEPT !["producer"] = "put_relock"]
    /\ UNCHANGED <<queue, mutex, not_empty, local, notBlocking>>

\* wait takes the mutex again before it returns into the loop
PutRelock ==
    /\ pc["producer"] = "put_relock"
    /\ mutex = "free"
    /\ mutex' = "producer"
    /\ pc' = [pc EXCEPT !["producer"] = "put_while"]
    /\ UNCHANGED <<queue, not_empty, not_full, local, notBlocking>>

\* put: queue.push_back(item); not_empty.notify_one(); the guard is dropped;
\* then the next turn of `for i in 1..=8`
PutPush ==
    /\ pc["producer"] = "put_push"
    /\ queue' = Append(queue, local.i)
    /\ not_empty' \in NotifyOne(not_empty)
    /\ mutex' = "free"
    /\ local' = [local EXCEPT !.i = @ + 1]
    /\ pc' = [pc EXCEPT !["producer"] =
                  IF local.i = DemoItems THEN "done" ELSE "put_lock"]
    /\ UNCHANGED <<not_full, notBlocking>>

\* take: let mut queue = self.queue.lock().unwrap()
TakeLock ==
    /\ pc["consumer"] = "take_lock"
    /\ mutex = "free"
    /\ mutex' = "consumer"
    /\ pc' = [pc EXCEPT !["consumer"] = "take_while"]
    /\ UNCHANGED <<queue, not_empty, not_full, local, notBlocking>>

\* take: queue.is_empty(): not_empty.wait(queue)
TakeWait ==
    /\ pc["consumer"] = "take_while"
    /\ queue = <<>>
    /\ mutex' = "free"
    /\ not_empty' = not_empty \cup {"consumer"}
    /\ pc' = [pc EXCEPT !["consumer"] = "take_wait"]
    /\ UNCHANGED <<queue, not_full, local, notBlocking>>

\* not_empty.wait returns, notified or spuriously
TakeWakeUp ==
    /\ pc["consumer"] = "take_wait"
    /\ not_empty' = not_empty \ {"consumer"}
    /\ pc' = [pc EXCEPT !["consumer"] = "take_relock"]
    /\ UNCHANGED <<queue, mutex, not_full, local, notBlocking>>

TakeRelock ==
    /\ pc["consumer"] = "take_relock"
    /\ mutex = "free"
    /\ mutex' = "consumer"
    /\ pc' = [pc EXCEPT !["consumer"] = "take_while"]
    /\ UNCHANGED <<queue, not_empty, not_full, local, notBlocking>>

\* take: the queue is not empty: pop_front; not_full.notify_one(); the guard
\* is dropped; then the next turn of `for _ in 0..8`
TakePop ==
    /\ pc["consumer"] = "take_while"
    /\ queue # <<>>
    /\ queue' = Tail(queue)
    /\ not_full' \in NotifyOne(not_full)
    /\ mutex' = "free"
    /\ local' = [local EXCEPT !.received = Append(@, Head(queue))]
    /\ pc' = [pc EXCEPT !["consumer"] =
                  IF Len(local.received) + 1 = DemoItems
                  THEN "done"
                  ELSE "take_lock"]
    /\ UNCHANGED <<not_empty, notBlocking>>

\* the steps a thread takes when it is scheduled; a wake-up without a
\* notification is not among them
Producer ==
    \/ PutLock
    \/ PutLoopExit
    \/ PutWait
    \/ PutLoopAgain
    \/ PutWakeUp /\ "producer" \notin not_full
    \/ PutRelock
    \/ PutPush

Consumer ==
    \/ TakeLock
    \/ TakeWait
    \/ TakeWakeUp /\ "consumer" \notin not_empty
    \/ TakeRelock
    \/ TakePop

NextBlocking ==
    \/ PutLock
    \/ PutLoopExit
    \/ PutWait
    \/ PutLoopAgain
    \/ PutWakeUp
    \/ PutRelock
    \/ PutPush
    \/ TakeLock
    \/ TakeWait
    \/ TakeWakeUp
    \/ TakeRelock
    \/ TakePop

\* fair scheduling: a thread that can take a step again and again takes one
\* in the end (so a thread that finds the mutex free again and again gets it);
\* a spurious wake-up is never owed
SpecBlockingFair ==
    /\ InitBlocking
    /\ [][NextBlocking]_vars
    /\ SF_vars(Producer)
    /\ SF_vars(Consumer)

\* ---- CircularQueue<T> of "04-Queues.rs" -----------------------------------
\* buffer[i] is an Option<T>. hist is the reference queue: the items
\* enqueued and not yet dequeued, oldest first. local.overflow_checks tells
\* how the program was built: with overflow checks (the debug profile), where
\* a usize subtraction below zero panics, or without (the release profile),
\* where it wraps modulo 2^UsizeBits.
\* bound of the model: the largest capacity given to new
MaxQueueCapacity == 3

CircularSelf ==
    [buffer |-> buffer, head |-> head, tail |-> tail, size |-> size,
     capacity |-> capacity]

circular_new(cap) ==
    [buffer |-> [i \in 0..(cap - 1) |-> None],
     head |-> 0, tail |-> 0, size |-> 0, capacity |-> cap]

enqueue(self, item) ==
    IF self.size = self.capacity
    THEN [self |-> self, ret |-> FALSE]
    ELSE [self |-> [self EXCEPT !.buffer[self.tail] = Some(item),
                                !.tail = (@ + 1) % self.capacity,
                                !.size = @ + 1],
          ret |-> TRUE]

dequeue(self) ==
    IF self.size = 0
    THEN [self |-> self, ret |-> None]
    ELSE [self |-> [self EXCEPT !.buffer[self.head] = None,
                                !.head = (@ + 1) % self.capacity,
                                !.size = @ - 1],
          ret |-> self.buffer[self.head]]

front(self) == self.buffer[self.head]

\* back: (self.tail - 1) % self.capacity in usize. With tail = 0 the
\* subtraction goes below zero: a panic with overflow checks, the largest
\* usize without.
back(self, overflow_checks) ==
    IF self.size = 0
    THEN [ret |-> None, panic |-> FALSE]
    ELSE IF self.tail = 0 /\ overflow_checks
    THEN [ret |-> None, panic |-> TRUE]
    ELSE LET back_index == ((self.tail - 1) % WordMod) % self.capacity
         IN  [ret |-> self.buffer[back_index], panic |-> FALSE]

InitCircular ==
    \E cap \in 1..MaxQueueCapacity :
        LET q == circular_new(cap)
        IN  /\ buffer = q.buffer
            /\ head = q.head
            /\ tail = q.tail
            /\ size = q.size
            /\ capacity = q.capacity
            /\ hist = <<>>
            /\ last = Call("new", 0, 0, None, None, q, FALSE, cap)
            /\ aborted = FALSE
            /\ pc = "idle"
            /\ local \in {[overflow_checks |-> b] : b \in BOOLEAN}
            /\ table = <<>>
            /\ hash = <<>>
            /\ ref = <<>>
            /\ NoChaining /\ NoCuckoo /\ NoLRU /\ NoBlocking

\* what the operations of CircularQueue leave alone
notCircular ==
    <<table, capacity, hash, ref, pc, local,
      chainingVars, cuckooVars, lruVars, blockingVars>>

Enqueue(item) ==
    /\ ~aborted
    /\ \E r \in {enqueue(CircularSelf, item)} :
           /\ buffer' = r.self.buffer
           /\ head' = r.self.head
           /\ tail' = r.self.tail
           /\ size' = r.self.size
           /\ hist' = IF r.ret THEN Append(hist, item) ELSE hist
           /\ last' = Call("enqueue", 0, item, r.ret, None, CircularSelf, FALSE, 0)
    /\ UNCHANGED <<aborted, notCircular>>

Dequeue ==
    /\ ~aborted
    /\ \E r \in {dequeue(CircularSelf)} :
           /\ buffer' = r.self.buffer
           /\ head' = r.self.head
           /\ tail' = r.self.tail
           /\ size' = r.self.size
           /\ hist' = IF hist = <<>> THEN hist ELSE Tail(hist)
           /\ last' = Call("dequeue", 0, 0, r.ret,
                           IF hist = <<>> THEN None ELSE Some(Head(hist)),
                           CircularSelf, FALSE, 0)
    /\ UNCHANGED <<aborted, notCircular>>

Back ==
    /\ ~aborted
    /\ \E r \in {back(CircularSelf, local.overflow_checks)} :
           /\ aborted' = r.panic
           /\ last' = Call("back", 0, 0, r.ret,
                           IF hist = <<>> THEN None ELSE Some(hist[Len(hist)]),
                           CircularSelf, FALSE, 0)
    /\ UNCHANGED <<buffer, head, tail, size, hist, notCircular>>

NextCircular ==
    \/ \E item \in Values : Enqueue(item)
    \/ Dequeue
    \/ Back

SpecCircular == InitCircular /\ [][NextCircular]_vars

\* ---- properties ---------------------------------------------------------
OccupiedSlots(t) == {i \in DOMAIN t : t[i].tag = "Occupied"}

IsPowerOfTwo(n) == \E e \in 0..n : 2 ^ e = n

\* the probe sequence of key k in table t reaches index j before any Empty slot
ProbeReaches(t, cap, k, j) ==
    \E i \in 0..(cap - 1) :
        /\ hash_key(cap, k, i) = j
        /\ \A m \in 0..(i - 1) : t[hash_key(cap, k, m)].tag # "Empty"

\* C1: after each insert or remove, len() equals the number of keys of the
\* reference map that was given the same calls.
C1_LenMatchesReference ==
    len(Self) = Cardinality({k \in Keys : ref[k] # None})

\* C2: get(k) returns what the reference map holds for every key k, and insert
\* and remove return the Option the reference map returns.
C2_RefinesReference ==
    /\ \A k \in Keys : get(Self, k) = ref[k]
    /\ last.op \in {"insert", "remove"} => last.ret = last.refret

\* C3: between operations, size is the number of Occupied slots of the table
\* (so remove never takes it below zero).
C3_SizeCountsOccupied ==
    /\ size = Cardinality(OccupiedSlots(table))
    /\ size >= 0

C3_Witness ==
    /\ last.op = "remove"
    /\ last.ret # None
    /\ size = 0
    /\ \E i \in DOMAIN table : table[i].tag = "Deleted"

\* C4: capacity is the table's length, is at least 1 and a power of two, and
\* the bit-mask of hash_key is (hash + probe) mod capacity; also after a resize.
C4_CapacityPowerOfTwo ==
    /\ capacity = VecLen(table)
    /\ capacity >= 1
    /\ IsPowerOfTwo(capacity)
    /\ \A k \in Keys, probe \in 0..(capacity - 1) :
           hash_key(capacity, k, probe) = (hash[k] + probe) % capacity

C4_Witness ==
    /\ last.op = "insert"
    /\ last.resized
    /\ capacity = 2 * last.before.capacity
    /\ \E k \in Keys : hash[k] + (capacity - 1) >= WordMod

\* C5 as claimed: right after insert returns, size / capacity <= 0.7.
C5_LoadFactorAfterInsert ==
    last.op = "insert" => size * ThresholdDen <= capacity * ThresholdNum

\* C5 as amended: right after insert returns, (size - 1) / capacity <= 0.7:
\* the resize test reads the ratio before the insert, so the ratio was within
\* the threshold when probing began and the insert added at most one entry.
C5_LoadFactorBeforeProbing ==
    last.op = "insert" => (size - 1) * ThresholdDen <= capacity * ThresholdNum

C5_Witness ==
    /\ last.op = "insert"
    /\ last.ret = None
    /\ ~last.resized
    /\ size >= 3
    /\ size * ThresholdDen > capacity * ThresholdNum

\* C6: every Occupied slot is reached by the probe sequence of its key before
\* any Empty slot; Deleted slots on the way do not break the chain.
C6_ProbeChainUnbroken ==
    \A j \in DOMAIN table :
        table[j].tag = "Occupied" =>
            ProbeReaches(table, capacity, table[j].key, j)

C6_Witness ==
    \E j \in DOMAIN table :
        /\ table[j].tag = "Occupied"
        /\ hash_key(capacity, table[j].key, 0) # j
        /\ table[hash_key(capacity, table[j].key, 0)].tag = "Deleted"

\* C7: insert(k, v) followed immediately by get(k) returns Some(v).
C7_InsertThenGet ==
    last.op = "insert" => get(Self, last.key) = Some(last.value)

C7_Witness ==
    /\ last.op = "insert"
    /\ capacity = last.before.capacity
    /\ \E j \in DOMAIN table :
           /\ last.before.table[j].tag = "Deleted"
           /\ table[j] = Occupied(last.key, last.value)
    /\ get(Self, last.key) = Some(last.value)

\* C8: where get(k) is Some, remove(k) returns Some, get(k) is then None and
\* a second remove(k) returns None.
C8_RemoveTwice ==
    (last.op = "remove" /\ get(last.before, last.key) # None) =>
        /\ last.ret # None
        /\ get(Self, last.key) = None
        /\ remove(Self, last.key).ret = None

\* C9: where get(k) is Some(v1), insert(k, v2) returns Some(v1), leaves size
\* unchanged, and get(k) is then Some(v2).
C9_DuplicateKeyInsert ==
    (last.op = "insert" /\ get(last.before, last.key) # None) =>
        /\ last.ret = get(last.before, last.key)
        /\ size = last.before.size
        /\ get(Self, last.key) = Some(last.value)

\* C10: an insert that resizes leaves get(k) of every other key k as it was
\* before the insert.
C10_ResizePreservesContents ==
    (last.op = "insert" /\ last.resized) =>
        \A k \in Keys \ {last.key} : get(Self, k) = get(last.before, k)

C12_SeventhInsertResizes ==
    /\ ExampleInserted <= 6 => capacity = 8
    /\ ExampleInserted = 7 =>
           /\ capacity = 16
           /\ \A k \in ExampleKeys : ref[k] # None /\ get(Self, k) = ref[k]

C12_Witness ==
    /\ ExampleInserted = 7
    /\ last.op = "insert"
    /\ last.resized
    /\ last.before.capacity = 8
    /\ capacity = 16
    /\ \E j \in DOMAIN table :
           /\ table[j].tag = "Occupied"
           /\ hash_key(capacity, table[j].key, 0) # j

\* no Occupied slot of table t holds key k
Absent(t, k) == \A i \in DOMAIN t : t[i].tag = "Occupied" => t[i].key # k

\* j is the first index on k's probe sequence whose slot is Occupied with k
FirstMatch(self, k, j) ==
    \E i \in 0..(self.capacity - 1) :
        /\ hash_key(self.capacity, k, i) = j
        /\ self.table[j].tag = "Occupied"
        /\ self.table[j].key = k
        /\ \A m \in 0..(i - 1) :
               LET e == self.table[hash_key(self.capacity, k, m)]
               IN  ~(e.tag = "Occupied" /\ e.key = k)

\* C13: the capacity-exhausted abort of insert is unreachable: no call of
\* insert, for any key, runs out of probes, in the call itself or in the
\* re-insertions of its resize.
C13_NoCapacityExhausted ==
    /\ ~aborted
    /\ \A k \in Keys, v \in Values : ~insert(Self, k, v).panic

C13_Witness ==
    /\ last.op = "insert"
    /\ last.ret = None
    /\ ~aborted
    /\ last.before.capacity > 1
    /\ \A i \in DOMAIN last.before.table : last.before.table[i].tag # "Empty"
    /\ \E i \in DOMAIN last.before.table : last.before.table[i].tag = "Deleted"

\* C14: for a key held by no Occupied slot, get and get_mut return None,
\* contains_key returns false and remove returns None, without an abort, and
\* remove leaves every slot, size and capacity as they were.
C14_NotFound ==
    /\ \A k \in Keys :
           Absent(table, k) =>
               /\ get(Self, k) = None
               /\ get_mut(Self, k) = None
               /\ ~contains_key(Self, k)
               /\ remove(Self, k) = [self |-> Self, ret |-> None]
    /\ (last.op \in {"get", "remove"} /\ Absent(last.before.table, last.key)) =>
           /\ last.ret = None
           /\ Self = last.before
           /\ ~aborted

C14_Witness ==
    /\ last.op = "remove"
    /\ Absent(last.before.table, last.key)
    /\ last.ret = None
    /\ Self = last.before
    /\ table[hash_key(capacity, last.key, 0)].tag = "Deleted"

\* C15: remove(k) of a present key returns what get(k) returned before, turns
\* the first Occupied slot with key k on k's probe sequence into Deleted,
\* decrements size by one and leaves every other slot and the capacity alone.
C15_RemoveFrame ==
    (last.op = "remove" /\ get(last.before, last.key) # None) =>
        /\ last.ret = get(last.before, last.key)
        /\ size = last.before.size - 1
        /\ capacity = last.before.capacity
        /\ DOMAIN table = DOMAIN last.before.table
        /\ \E j \in DOMAIN table :
               /\ FirstMatch(last.before, last.key, j)
               /\ table[j] = Deleted
               /\ \A i \in DOMAIN table \ {j} : table[i] = last.before.table[i]

C15_Witness ==
    /\ last.op = "remove"
    /\ last.ret # None
    /\ size = last.before.size - 1
    /\ \E i \in DOMAIN table :
           table[i].tag = "Occupied" /\ table[i].key = last.key

\* the slots of table t that are Occupied with key k
SlotsOf(t, k) == {i \in DOMAIN t : t[i].tag = "Occupied" /\ t[i].key = k}

\* C16 as claimed: insert resizes exactly when (size + 1) / capacity > 0.7,
\* with size and capacity taken at entry.
C16_ResizeCountsNewEntry ==
    last.op = "insert" =>
        (capacity # last.before.capacity
            <=> (last.before.size + 1) * ThresholdDen
                    > last.before.capacity * ThresholdNum)

\* C16 as amended: insert resizes (doubling the capacity) exactly when
\* size / capacity > 0.7, with size and capacity taken at entry, and leaves
\* the capacity alone otherwise.
C16_ResizeReadsEntryRatio ==
    /\ last.op = "insert" =>
           capacity = IF last.before.size * ThresholdDen
                            > last.before.capacity * ThresholdNum
                      THEN 2 * last.before.capacity
                      ELSE last.before.capacity
    /\ \A k \in Keys, v \in Values :
           insert(Self, k, v).self.capacity =
               IF size * ThresholdDen > capacity * ThresholdNum
               THEN 2 * capacity
               ELSE capacity

C16_Witness ==
    /\ last.op = "insert"
    /\ capacity = last.before.capacity
    /\ last.before.size > 0
    /\ (last.before.size + 1) * ThresholdDen
           > last.before.capacity * ThresholdNum

\* C17: at most one Occupied slot holds any given key.
C17_NoKeyStoredTwice ==
    \A k \in Keys : Cardinality(SlotsOf(table, k)) <= 1

\* C18: the resize step of an insert leaves size unchanged: the doubled table
\* has as many Occupied slots as the old one, one for each old Occupied entry
\* with its key and value, and no Deleted slot.
C18_ResizeKeepsEntries ==
    (last.op = "insert" /\ last.resized) =>
        LET old == last.before
            new == resize(old).self
        IN  /\ new.size = old.size
            /\ Cardinality(OccupiedSlots(new.table))
                   = Cardinality(OccupiedSlots(old.table))
            /\ \A i \in OccupiedSlots(old.table) :
                   \E j \in DOMAIN new.table : new.table[j] = old.table[i]
            /\ \A j \in DOMAIN new.table : new.table[j].tag # "Deleted"

EmptySlots(t) == {i \in DOMAIN t : t[i].tag = "Empty"}

\* C19: the capacity changes only in insert: every call leaves it unchanged
\* or, for insert only, exactly doubled (no nested resize), so it never
\* decreases.
C19_CapacityChangesOnlyInInsert ==
    [][/\ capacity' \in {capacity, 2 * capacity}
       /\ last'.op # "insert" => capacity' = capacity
       /\ \A k \in Keys : remove(Self, k).self.capacity = capacity
       /\ \A k \in Keys, v \in Values :
              insert(Self, k, v).self.capacity \in {capacity, 2 * capacity}
      ]_vars

C19_Witness ==
    /\ last.op = "insert"
    /\ capacity = 2 * last.before.capacity
    /\ last.before.size >= 2
    /\ size >= 2

\* C20: between two resizes a slot only goes from Empty or Deleted to
\* Occupied (in insert) or from Occupied to Deleted (in remove); no slot
\* becomes Empty again, so the Empty slots never grow in number.
C20_SlotLifecycle ==
    (last.op # "with_capacity" /\ capacity = last.before.capacity) =>
        /\ DOMAIN table = DOMAIN last.before.table
        /\ \A i \in DOMAIN table :
               LET a == last.before.table[i]
                   b == table[i]
               IN  \/ a.tag = b.tag /\ (a.tag = "Occupied" => a.key = b.key)
                   \/ /\ last.op = "insert"
                      /\ a.tag \in {"Empty", "Deleted"}
                      /\ b.tag = "Occupied"
                   \/ /\ last.op = "remove"
                      /\ a.tag = "Occupied"
                      /\ b.tag = "Deleted"
        /\ EmptySlots(table) \subseteq EmptySlots(last.before.table)

C20_Witness ==
    /\ last.op = "remove"
    /\ capacity > 1
    /\ EmptySlots(table) = {}
    /\ \E i \in DOMAIN table :
           last.before.table[i].tag = "Occupied" /\ table[i].tag = "Deleted"

\* C21: get(k) and remove(k) look at no more than capacity slots, and return
\* None for a key held by no Occupied slot, without an abort, also where the
\* table has no Empty slot and the search ends by running out of probes.
C21_SearchTerminates ==
    /\ \A k \in Keys :
           /\ search_probes(Self, k, 0) <= capacity
           /\ Absent(table, k) =>
                  /\ get(Self, k) = None
                  /\ remove(Self, k).ret = None
                  /\ EmptySlots(table) = {} =>
                         search_probes(Self, k, 0) = capacity
    /\ (last.op \in {"get", "remove"} /\ Absent(last.before.table, last.key)) =>
           /\ last.ret = None
           /\ ~aborted

C21_Witness ==
    /\ last.op \in {"get", "remove"}
    /\ Absent(last.before.table, last.key)
    /\ last.ret = None
    /\ last.before.capacity > 1
    /\ EmptySlots(last.before.table) = {}
    /\ \E i \in DOMAIN last.before.table :
           last.before.table[i].tag = "Occupied"
    /\ last.before.size * ThresholdDen <= last.before.capacity * ThresholdNum
    /\ search_probes(last.before, last.key, 0) = last.before.capacity

\* the first index on k's probe sequence whose slot is Empty or Deleted
FirstVacant(self, k, j) ==
    \E i \in 0..(self.capacity - 1) :
        /\ hash_key(self.capacity, k, i) = j
        /\ j = (hash[k] + i) % self.capacity
        /\ self.table[j].tag \in {"Empty", "Deleted"}
        /\ \A m \in 0..(i - 1) :
               self.table[(hash[k] + m) % self.capacity].tag = "Occupied"

\* C22: insert(k, v) of a key held by no Occupied slot returns None, adds one
\* to size and stores (k, v) in the first Empty or Deleted slot in the order
\* (hash(k) + i) mod capacity, i = 0, 1, ..., wrapping from the last index to
\* index 0; where no resize was triggered every other slot is as before.
C22_InsertPlacement ==
    (last.op = "insert" /\ Absent(last.before.table, last.key)) =>
        /\ last.ret = None
        /\ size = last.before.size + 1
        /\ ~last.resized =>
               /\ capacity = last.before.capacity
               /\ DOMAIN table = DOMAIN last.before.table
               /\ \E j \in DOMAIN table :
                      /\ FirstVacant(last.before, last.key, j)
                      /\ table[j] = Occupied(last.key, last.value)
                      /\ \A i \in DOMAIN table \ {j} :
                             table[i] = last.before.table[i]
        /\ last.resized =>
               \E j \in DOMAIN table :
                   /\ FirstVacant(resize(last.before).self, last.key, j)
                   /\ table[j] = Occupied(last.key, last.value)

\* C23: resize builds the doubled table apart from the table in use: while
\* resize runs, after any number of re-insertions and until the replacement,
\* table, size and capacity are what they were when insert was entered (so a
\* resize given up there leaves that table in place), the re-insertions go
\* to new_table only, and what is swapped in is the completely built table.
C23_ResizeBuildsApart ==
    /\ pc = "resize" =>
           /\ Self = local.before
           /\ size = Cardinality(OccupiedSlots(table))
           /\ capacity = VecLen(table)
           /\ local.new_table.capacity = 2 * capacity
           /\ local.new_table.size
                  = Cardinality(OccupiedSlots(local.new_table.table))
    /\ pc = "probe" => Self = resize(local.before).self

C23_Witness ==
    /\ pc = "resize"
    /\ local.i >= 1
    /\ local.i < VecLen(table)
    /\ local.new_table.size >= 1
    /\ table[local.i].tag = "Occupied"
    /\ Self = local.before

\* C24: SeparateChainingHashTable.remove(k) removes only k: get(j) of every
\* other key j, in the bucket of k or not, returns after the call what it
\* returned before, and len() is one less if k was present and the same if
\* it was not.
C24_ChainingRemoveFrame ==
    last.op = "remove" =>
        /\ \A j \in Keys \ {last.key} :
               chaining_get(ChainingSelf, j) = chaining_get(last.before, j)
        /\ chaining_len(ChainingSelf) =
               IF chaining_get(last.before, last.key) # None
               THEN chaining_len(last.before) - 1
               ELSE chaining_len(last.before)

\* the Some entries of the two tables, as (table, index) pairs
CuckooEntries(self) ==
    {p \in (0..1) \X (0..(self.capacity - 1)) : self.tables[p[1]][p[2]] # None}

\* C25: whenever CuckooHashTable.insert(k, v) returns Ok(()), get(k) returns
\* Some(v) right after it, also when the slot of k in the first table held
\* another key and an eviction took place.
C25_CuckooInsertThenGet ==
    (last.op = "insert" /\ last.ret = Ok) =>
        cuckoo_get(CuckooSelf, last.key) = Some(last.value)

\* C26: size is the number of Some entries of the two tables together, and
\* no key is stored in both tables.
C26_CuckooSizeAndUniqueness ==
    /\ size = Cardinality(CuckooEntries(CuckooSelf))
    /\ \A k \in Keys :
           ~(CuckooHolds(CuckooSelf, 0, k) /\ CuckooHolds(CuckooSelf, 1, k))

\* the keys of map m
MapKeys(m) == {k \in Keys : m[k] # None}

\* C27: an LRUCache created with capacity c >= 1 never holds more than c
\* entries in map, whatever put and get calls were made.
C27_LRUWithinCapacity ==
    MapLen(map) <= capacity

\* C28: a put of a new key into a full cache evicts the least recently used
\* key, the key of the cache whose latest put or successful get is oldest,
\* and no other; so not a key read by get after another key's last use.
C28_LRUEvictsLeastRecent ==
    (/\ last.op = "put"
     /\ last.before.map[last.key] = None
     /\ MapLen(last.before.map) >= last.before.capacity) =>
        MapKeys(map) =
            (MapKeys(last.before.map) \ {Head(last.refret)}) \cup {last.key}

\* C29: on the capacity-5 queue of the demonstration, under fair scheduling,
\* every put appends its item and returns, so the producer finishes its 8
\* puts, the consumer finishes its 8 takes, and the consumer has received the
\* items 1..8 in that order.
C29_ProducerAndConsumerFinish ==
    capacity = Some(DemoCapacity) =>
        <>(/\ pc["producer"] = "done"
           /\ pc["consumer"] = "done"
           /\ local.received = [n \in 1..DemoItems |-> n])

\* C30: in every non-empty state CircularQueue.back() returns the most
\* recently enqueued element, without an abort, however the program was
\* built; also where tail has wrapped to index 0.
C30_BackIsNewest ==
    /\ ~aborted
    /\ size > 0 =>
           \A checks \in BOOLEAN :
               back(CircularSelf, checks) =
                   [ret |-> Some(hist[Len(hist)]), panic |-> FALSE]

====
